---- MODULE Spec2Model ----
(***************************************************************************)
(* Verification model of the DataScienceLib utilities:                     *)
(*   - Extrapolator (transformers/time_series/extrapolator.py)             *)
(*   - MultiTimeSeriesGapFiller (transformers/time_series/fillers.py)      *)
(*   - BaseCaster / ForeCaster / BackCaster (time_series/casters.py)       *)
(*   - Renamer (helpers/Renamer.py)                                        *)
(*   - Cleaner (etl/cleaners/Cleaner.py)                                   *)
(*   - OutlierRemover (etl/outliers/outlier_remover.py)                    *)
(*   - OutlierSmoother (etl/outliers/outlier_smoother.py)                  *)
(*   - ScalerNDim (transformers/scaling/scaler_n_dim.py)                   *)
(*   - TransposerNDim (transformers/transposing/transposer_n_dim.py)       *)
(*   - MultiTimeSeriesExtender (transformers/time_series/extenders.py)     *)
(* Floating point values are modelled as exact rationals <<num, den>>;     *)
(* a null cell (polars null, numpy nan, Python None) is <<0, 0>>.          *)
(* Series and arrays are functions over 0..n-1, as the code indexes them.  *)
(***************************************************************************)
EXTENDS Integers, Sequences, FiniteSets, TLC

VARIABLES
    \* Extrapolator: one instance, one input series, the two fill results
    ext, col, out_regular, out_timeseries,
    \* MultiTimeSeriesGapFiller: one instance, one input frame, the fill result
    filler, df, out_fill,
    \* caster: constructor arguments, learned state, the outcome of the last call,
    \* and whether some fit has returned
    caster, is_fitted, trends, cycles, last_call, fit_completed,
    \* Renamer: the occurrence counts, the names passed to rename so far and the
    \* name the last call returned
    counts, rename_calls, renamed,
    \* Cleaner: the frame, the logical types of its columns, the outcome of the
    \* last call
    lf, schema, cleaned,
    \* OutlierRemover: the feature table X and the outcome of the last call
    table, removed,
    \* OutlierSmoother: the instance, the frame passed to smooth, its result
    smoother, sframe, smoothed,
    \* ScalerNDim: the constructor arguments, the instance and the outcome of
    \* the last call
    scaler_args, scaler, scaled,
    \* TransposerNDim: the instance and the outcome of the last call
    transposer, transposed,
    \* MultiTimeSeriesExtender: the instance and the outcome of the last call
    extender, extended

extVars == <<ext, col, out_regular, out_timeseries>>
fillerVars == <<filler, df, out_fill>>
casterVars == <<caster, is_fitted, trends, cycles, last_call, fit_completed>>
tsVars == <<extVars, fillerVars, casterVars>>
renamerVars == <<counts, rename_calls, renamed>>
cleanerVars == <<lf, schema, cleaned>>
outlierVars == <<table, removed>>
smootherVars == <<smoother, sframe, smoothed>>
scalerVars == <<scaler_args, scaler, scaled>>
transposerVars == <<transposer, transposed>>
extenderVars == <<extender, extended>>
etlVars == <<renamerVars, cleanerVars, outlierVars>>
moreVars == <<smootherVars, scalerVars, transposerVars, extenderVars>>
vars == <<tsVars, etlVars, moreVars>>

----------------------------------------------------------------------------
(* Bounds of the model *)

\* longest input series enumerated for the Extrapolator
MaxLen == 4
\* most rows of an input frame of the gap filler, and its latest month
MaxRows == 2
MaxMonth == 3
\* longest series a caster is fitted on
MaxObs == 26
\* most rename calls on one Renamer
MaxCalls == 4
\* most rows of a frame handed to the Cleaner
MaxFrameRows == 2
\* most rows of a table handed to the OutlierRemover
MaxTableRows == 3
\* longest column handed to the OutlierSmoother
MaxSmoothLen == 3
\* most elements of an array handed to the ScalerNDim
MaxArrayLen == 2
\* highest rank of an array handed to the TransposerNDim, and longest axis tuple
MaxRank == 3
\* most steps a MultiTimeSeriesExtender extends by
MaxSteps == 2

----------------------------------------------------------------------------
(* Exact rational arithmetic standing in for float64 *)

Null == <<0, 0>>
IsNull(x) == x[2] = 0

Abs(k) == IF k < 0 THEN -k ELSE k

RECURSIVE GCD(_, _)
GCD(a, b) == IF b = 0 THEN a ELSE GCD(b, a % b)

RNorm(n, d) ==
    LET g == GCD(Abs(n), Abs(d))
        s == IF d < 0 THEN -1 ELSE 1
    IN <<(s * n) \div g, (s * d) \div g>>

RInt(k) == <<k, 1>>
RAdd(a, b) == RNorm(a[1] * b[2] + b[1] * a[2], a[2] * b[2])
RSub(a, b) == RNorm(a[1] * b[2] - b[1] * a[2], a[2] * b[2])
RMul(a, b) == RNorm(a[1] * b[1], a[2] * b[2])
RDivInt(a, k) == RNorm(a[1], a[2] * k)
RLess(a, b) == a[1] * b[2] < b[1] * a[2]

SetMax(S) == CHOOSE x \in S : \A y \in S : y <= x
SetMin(S) == CHOOSE x \in S : \A y \in S : x <= y

----------------------------------------------------------------------------
(* polars Series primitives used by the Extrapolator *)

SeriesLen(s) == Cardinality(DOMAIN s)
EmptyCol == [i \in {} |-> Null]
NotNullIdx(s) == {i \in DOMAIN s : ~IsNull(s[i])}

Ok(s) == [kind |-> "ok", col |-> s]
Raised(e) == [kind |-> e, col |-> EmptyCol]
NotCalled == [kind |-> "none", col |-> EmptyCol]

\* Series.interpolate: only nulls lying between two non-null values are filled
interpolate(s, method) ==
    [i \in DOMAIN s |->
        IF ~IsNull(s[i]) THEN s[i]
        ELSE LET before == {k \in NotNullIdx(s) : k < i}
                 after == {k \in NotNullIdx(s) : k > i}
             IN IF before = {} \/ after = {} THEN Null
                ELSE LET lo == SetMax(before)
                         hi == SetMin(after)
                         step == i - lo
                         steps_n == hi - lo
                     IN IF method = "linear"
                        THEN RAdd(s[lo], RDivInt(RMul(RSub(s[hi], s[lo]), RInt(step)), steps_n))
                        ELSE IF steps_n - step > step THEN s[lo] ELSE s[hi]]

\* Series.fill_null(value=...): a value of None is rejected by polars
fill_null(s, value) ==
    IF IsNull(value)
    THEN Raised("ValueError")
    ELSE Ok([i \in DOMAIN s |-> IF IsNull(s[i]) THEN value ELSE s[i]])

\* Series.diff(n=1): null at index 0 and wherever an operand is null
diff(s) ==
    [i \in DOMAIN s |->
        IF i = 0 \/ IsNull(s[i]) \/ IsNull(s[i - 1]) THEN Null ELSE RSub(s[i], s[i - 1])]

\* sum of the non-null cells lo..hi, by halves
RECURSIVE SumRange(_, _, _)
SumRange(s, lo, hi) ==
    IF lo > hi THEN RInt(0)
    ELSE IF lo = hi THEN (IF IsNull(s[lo]) THEN RInt(0) ELSE s[lo])
    ELSE LET mid == (lo + hi) \div 2
         IN RAdd(SumRange(s, lo, mid), SumRange(s, mid + 1, hi))

\* Series.mean: nulls are skipped; null when nothing is left
mean(s) ==
    IF NotNullIdx(s) = {} THEN Null
    ELSE RDivInt(SumRange(s, 0, SeriesLen(s) - 1), Cardinality(NotNullIdx(s)))

\* rank of cell i among the non-null cells (ties broken by index)
RankOf(s, i) ==
    Cardinality({k \in NotNullIdx(s) : RLess(s[k], s[i]) \/ (s[k] = s[i] /\ k < i)})

\* Series.median: middle non-null value, or the mean of the two middle ones
median(s) ==
    LET c == Cardinality(NotNullIdx(s))
        at(r) == s[CHOOSE i \in NotNullIdx(s) : RankOf(s, i) = r]
    IN IF c = 0 THEN Null
       ELSE IF c % 2 = 1 THEN at(c \div 2)
       ELSE RDivInt(RAdd(at(c \div 2 - 1), at(c \div 2)), 2)

----------------------------------------------------------------------------
(* Extrapolator *)

\* cell values of the enumerated input series
Vals == {-1, 0, 3}
Cells == {Null} \cup {RInt(v) : v \in Vals}

\* the series of the docstrings and of the unit tests
DocSeries ==
    LET n == Null
        v(k) == RInt(k)
    IN { [i \in 0..7 |-> <<n, n, v(5), v(6), v(7), n, v(9), n>>[i + 1]],
         [i \in 0..8 |-> <<n, n, v(5), v(6), v(7), n, v(9), n, n>>[i + 1]],
         [i \in 0..7 |-> <<n, n, v(5), v(6), v(7), v(8), n, n>>[i + 1]] }

InputSeries == (UNION {[0..(n - 1) -> Cells] : n \in 0..MaxLen}) \cup DocSeries

\* Extrapolator.__init__: the four attributes; an unset (None) value is Null
ExtConfigs ==
    [interpolation_method : {"linear", "nearest"},
     fill_value_if_only_null_values : {Null, RInt(0)},
     val_before_first_non_null_val : {Null, RInt(0), RInt(99)},
     val_after_last_non_null_val : {Null, RInt(100)}]

first_non_null_idx(c) == SetMin(NotNullIdx(c))
last_non_null_idx(c) == SetMax(NotNullIdx(c))
avg_increase(c) == mean(diff(c))

\* slip: the slope is not scaled by the distance to the start of the series
first_val_unscaled(c) == RSub(c[first_non_null_idx(c)], avg_increase(c))

first_val(c) ==
    RSub(c[first_non_null_idx(c)], RMul(avg_increase(c), RInt(first_non_null_idx(c))))

last_val(c) ==
    LET rest == SeriesLen(c) - 1 - last_non_null_idx(c)
    IN RAdd(c[last_non_null_idx(c)],
            RMul(avg_increase(c), RInt(IF rest > 0 THEN rest ELSE 0)))

\* the when/then/otherwise of fill_regular: the two end cells get the extrapolated values
regular_edges(c) ==
    [i \in DOMAIN c |->
        IF i = 0 /\ first_non_null_idx(c) > 0 THEN first_val(c)
        ELSE IF i = SeriesLen(c) - 1 /\ last_non_null_idx(c) < SeriesLen(c) - 1
             THEN last_val(c)
             ELSE c[i]]

fill_regular(e, s) ==
    LET c == interpolate(s, e.interpolation_method)
        no_nulls_len == Cardinality(NotNullIdx(c))
    IN IF no_nulls_len = 0 THEN fill_null(c, e.fill_value_if_only_null_values)
       ELSE IF no_nulls_len = 1 THEN fill_null(c, median(c))
       \* with two non-null values both indices exist: the early return is dead
       ELSE Ok(interpolate(regular_edges(c), "linear"))

\* slip: the boundary literal is applied to a series with a single value
timeseries_single_literal(e, c) ==
    fill_null(c, IF IsNull(e.val_before_first_non_null_val)
                 THEN e.val_after_last_non_null_val
                 ELSE e.val_before_first_non_null_val)

\* the single-value branch of fill_timeseries
timeseries_single(e, c) == fill_null(c, mean(c))

\* slip: only the first cell receives the leading fill
timeseries_before_first_only(e, c, d) ==
    [i \in DOMAIN d |->
        IF i = 0 /\ i < first_non_null_idx(c) /\ IsNull(d[i])
        THEN (IF IsNull(e.val_before_first_non_null_val)
              THEN first_val(c) ELSE e.val_before_first_non_null_val)
        ELSE d[i]]

\* slip: the leading literal overwrites every cell before the last non-null one
timeseries_before_up_to_last(e, c, d) ==
    [i \in DOMAIN d |->
        IF i < last_non_null_idx(c)
        THEN (IF IsNull(e.val_before_first_non_null_val)
              THEN d[i] ELSE e.val_before_first_non_null_val)
        ELSE d[i]]

\* leading edge of fill_timeseries; c is the interpolated series, d the frame column
timeseries_before(e, c, d) ==
    IF ~IsNull(e.val_before_first_non_null_val)
    THEN [i \in DOMAIN d |->
            IF i < first_non_null_idx(c) /\ IsNull(d[i])
            THEN e.val_before_first_non_null_val ELSE d[i]]
    ELSE [i \in DOMAIN d |->
            IF i <= first_non_null_idx(c) /\ IsNull(d[i])
            THEN RAdd(first_val(c), RMul(avg_increase(c), RInt(i))) ELSE d[i]]

\* slip: the trailing extrapolation steps the wrong way from last_val
timeseries_after_wrong_sign(e, c, d) ==
    [i \in DOMAIN d |->
        IF i >= last_non_null_idx(c) /\ IsNull(d[i])
        THEN (IF IsNull(e.val_after_last_non_null_val)
              THEN RAdd(last_val(c), RMul(avg_increase(c), RInt(SeriesLen(c) - 1 - i)))
              ELSE e.val_after_last_non_null_val)
        ELSE d[i]]

\* trailing edge of fill_timeseries
timeseries_after(e, c, d) ==
    IF ~IsNull(e.val_after_last_non_null_val)
    THEN [i \in DOMAIN d |->
            IF i >= last_non_null_idx(c) /\ IsNull(d[i])
            THEN e.val_after_last_non_null_val ELSE d[i]]
    ELSE [i \in DOMAIN d |->
            IF i >= last_non_null_idx(c) /\ IsNull(d[i])
            THEN RSub(last_val(c), RMul(avg_increase(c), RInt(SeriesLen(c) - 1 - i)))
            ELSE d[i]]

fill_timeseries(e, s) ==
    IF IsNull(e.val_before_first_non_null_val) /\ IsNull(e.val_after_last_non_null_val)
    THEN fill_regular(e, s)
    ELSE LET c == interpolate(s, e.interpolation_method)
             no_nulls_len == Cardinality(NotNullIdx(c))
         IN IF no_nulls_len = 0 THEN fill_null(c, e.fill_value_if_only_null_values)
            ELSE IF no_nulls_len = 1 THEN timeseries_single(e, c)
            ELSE Ok(timeseries_after(e, c, timeseries_before(e, c, c)))

ExtInit ==
    /\ ext \in ExtConfigs
    /\ col \in InputSeries
    /\ out_regular = NotCalled
    /\ out_timeseries = NotCalled

FillRegular ==
    /\ out_regular' = fill_regular(ext, col)
    /\ UNCHANGED <<ext, col, out_timeseries>>

FillTimeseries ==
    /\ out_timeseries' = fill_timeseries(ext, col)
    /\ UNCHANGED <<ext, col, out_regular>>

----------------------------------------------------------------------------
(* MultiTimeSeriesGapFiller *)

\* A frame is a function from 0..n-1 to rows; a row has the date column and one
\* column per logical type the fill dispatches on. Null cells of the string
\* and categorical columns are StrNull, of the boolean column BoolNull.
StrNull == "null"
BoolNull == "null"
FrameCols == {"date", "num", "bool", "dur", "str", "cat"}
EmptyFrame == [i \in {} |-> [c \in FrameCols |-> Null]]

Row(date, num, bool, dur, str, cat) ==
    [date |-> date, num |-> num, bool |-> bool, dur |-> dur, str |-> str, cat |-> cat]
NullRow(date) == Row(date, Null, BoolNull, Null, StrNull, StrNull)
Column(f, name) == [i \in DOMAIN f |-> f[i][name]]

\* MultiTimeSeriesGapFiller.__init__ after its argument validation
DurationStrategies == {"forward", "backward", "min", "max", "mean", "zero", "one"}
StringStrategies == {"forward_then_backward", "backward_then_forward"}
FillerConfigs ==
    [boolean_value : {FALSE},
     duration_strategy : DurationStrategies,
     string_strategy : StringStrategies]

\* rows of the enumerated frames: the boolean cell is null exactly when the
\* numeric cell is, the categorical cell exactly when the string cell is
InputRows ==
    {Row(0, n, IF IsNull(n) THEN BoolNull ELSE "true", d, s,
         IF s = StrNull THEN StrNull ELSE "cat") :
        n \in {Null, RInt(2)}, d \in {Null, RInt(1)}, s \in {StrNull, "cherry", "fig"}}

\* the k-th smallest (from 0) month of a set
KthMonth(S, k) == CHOOSE m \in S : Cardinality({o \in S : o < m}) = k

\* input frames: up to MaxRows rows with distinct months, given in ascending
\* or in descending date order
InputFrames ==
    UNION {
        {[i \in 0..(k - 1) |->
            [rows[i] EXCEPT !.date = KthMonth(months, IF asc THEN i ELSE k - 1 - i)]] :
            rows \in [0..(k - 1) -> InputRows],
            months \in {S \in SUBSET (1..MaxMonth) : Cardinality(S) = k},
            asc \in BOOLEAN} :
        k \in 1..MaxRows}

\* DataFrame.sort(by=[date_col]): rows in ascending date order
sort_by_date(f) ==
    LET rank(i) == Cardinality({k \in DOMAIN f :
                        f[k].date < f[i].date \/ (f[k].date = f[i].date /\ k < i)})
    IN [r \in DOMAIN f |-> f[CHOOSE i \in DOMAIN f : rank(i) = r]]

\* DataFrame.upsample(every="1mo"): one row per month from the first to the
\* last date; months without a row get a row of nulls
upsample(f) ==
    LET first == f[0].date
        last == f[Cardinality(DOMAIN f) - 1].date
    IN [r \in 0..(last - first) |->
          IF \E i \in DOMAIN f : f[i].date = first + r
          THEN f[CHOOSE i \in DOMAIN f : f[i].date = first + r]
          ELSE NullRow(first + r)]

\* Expr.fill_null(strategy="forward" | "backward"), nul being the null marker
fill_forward(s, nul) ==
    [i \in DOMAIN s |->
        LET prev == {k \in DOMAIN s : k <= i /\ s[k] # nul}
        IN IF prev = {} THEN nul ELSE s[SetMax(prev)]]

fill_backward(s, nul) ==
    [i \in DOMAIN s |->
        LET next == {k \in DOMAIN s : k >= i /\ s[k] # nul}
        IN IF next = {} THEN nul ELSE s[SetMin(next)]]

\* Expr.fill_null(strategy=...) on a duration column (whole units)
fill_null_strategy(s, strategy) ==
    LET nn == NotNullIdx(s)
        lowest == s[CHOOSE i \in nn : \A k \in nn : ~RLess(s[k], s[i])]
        highest == s[CHOOSE i \in nn : \A k \in nn : ~RLess(s[i], s[k])]
        m == mean(s)
        with(v) == [i \in DOMAIN s |-> IF IsNull(s[i]) THEN v ELSE s[i]]
    IN CASE strategy = "forward" -> fill_forward(s, Null)
         [] strategy = "backward" -> fill_backward(s, Null)
         [] strategy = "zero" -> with(RInt(0))
         [] strategy = "one" -> with(RInt(1))
         [] strategy = "min" -> IF nn = {} THEN s ELSE with(lowest)
         [] strategy = "max" -> IF nn = {} THEN s ELSE with(highest)
         [] strategy = "mean" -> IF nn = {} THEN s ELSE with(RInt(m[1] \div m[2]))

\* the Extrapolator that fill builds for the numeric columns
FillerExt ==
    [interpolation_method |-> "linear",
     fill_value_if_only_null_values |-> RInt(0),
     val_before_first_non_null_val |-> RInt(0),
     val_after_last_non_null_val |-> Null]

\* the two-step strategy of fill, applied to a column with null marker nul
two_step(s, nul, string_strategy) ==
    IF string_strategy = "forward_then_backward"
    THEN fill_backward(fill_forward(s, nul), nul)
    ELSE fill_forward(fill_backward(s, nul), nul)

\* the columns the match statement of fill selects: cs.duration()
two_step_columns == {"dur"}

\* MultiTimeSeriesGapFiller.fill
fill(g, f) ==
    LET up == upsample(sort_by_date(f))
        num == fill_timeseries(FillerExt, Column(up, "num")).col
        bool == [i \in DOMAIN up |->
                    IF up[i].bool = BoolNull
                    THEN (IF g.boolean_value THEN "true" ELSE "false") ELSE up[i].bool]
        dur == fill_null_strategy(Column(up, "dur"), g.duration_strategy)
        typed == [i \in DOMAIN up |->
                    Row(up[i].date, num[i], bool[i], dur[i], up[i].str, up[i].cat)]
        nul(c) == IF c \in {"str", "cat"} THEN StrNull ELSE Null
    IN [i \in DOMAIN typed |->
          [c \in FrameCols |->
              IF c \in two_step_columns
              THEN two_step(Column(typed, c), nul(c), g.string_strategy)[i]
              ELSE typed[i][c]]]

FillerInit ==
    /\ filler \in FillerConfigs
    /\ df \in InputFrames
    /\ out_fill = EmptyFrame

Fill ==
    /\ out_fill' = fill(filler, df)
    /\ UNCHANGED <<filler, df>>

----------------------------------------------------------------------------
(* BaseCaster / ForeCaster / BackCaster *)

\* float arithmetic with nan (Null) operands
NAdd(a, b) == IF IsNull(a) \/ IsNull(b) THEN Null ELSE RAdd(a, b)
NMul(a, b) == IF IsNull(a) \/ IsNull(b) THEN Null ELSE RMul(a, b)

\* BaseCaster.__init__: the match on period
DailyPeriod == 365
MonthlyPeriod == 12
YearlyPeriod == 1
DefaultSteps == 24
PeriodOf(name) ==
    CASE name = "daily" -> DailyPeriod
      [] name = "monthly" -> MonthlyPeriod
      [] name = "yearly" -> YearlyPeriod

CasterConfigs ==
    [class : {"ForeCaster", "BackCaster"},
     period : {PeriodOf(p) : p \in {"daily", "monthly", "yearly"}},
     steps : {0, 2, DefaultSteps},
     only_return_extended : BOOLEAN]

\* numpy arrays: a 1-D array is a function over 0..n-1, a 2-D array a function
\* from rows to such functions; NoArray is None / no value
NoArray == [ndim |-> 0, ncols |-> 0, data |-> <<>>]
Array1(a) == [ndim |-> 1, ncols |-> 0, data |-> a]
Array2(rows, k) == [ndim |-> 2, ncols |-> k, data |-> rows]
NRows(x) == Cardinality(DOMAIN x.data)

\* X.reshape(-1, 1) for a 1-D X, X itself otherwise
as_columns(x) ==
    IF x.ndim = 1 THEN Array2([i \in DOMAIN x.data |-> [j \in {0} |-> x.data[i]]], 1) ELSE x

\* x_new.reshape(-1,) when x_new is 2-D with a single column
flatten_single(x) ==
    IF x.ndim = 2 /\ x.ncols = 1 THEN Array1([i \in DOMAIN x.data |-> x.data[i][0]]) ELSE x

zeros1(k) == [j \in 0..(k - 1) |-> RInt(0)]
zeros2(k, p) == [j \in 0..(k - 1) |-> [q \in 0..(p - 1) |-> RInt(0)]]

\* the arrays fit is called with: only their shape reaches the model, the
\* decomposition of their values is the STL result below
FitInputs ==
    {[ndim |-> 1, nobs |-> n, ncols |-> 1] : n \in {MonthlyPeriod + 2, MaxObs}}
    \cup {[ndim |-> 2, nobs |-> MaxObs, ncols |-> 2]}

\* trend and seasonal components an STL fit may return for n observations
TrendOf(n, t0, tl) == [i \in 0..(n - 1) |-> IF i = n - 1 THEN RInt(tl) ELSE RInt(t0)]
SeasonalOf(n, shape, k, v, w) ==
    [i \in 0..(n - 1) |->
        IF (shape = "spike" /\ i = k) \/ (shape = "periodic" /\ i % MonthlyPeriod = k)
        THEN RInt(v) ELSE RInt(w)]
STLResults(n) ==
    {[trend |-> TrendOf(n, tt[1], tt[2]), seasonal |-> SeasonalOf(n, sh[1], sh[2], sh[3], sh[4])] :
        tt \in {<<0, 0>>, <<5, 1>>},
        sh \in {<<"spike", 1, 1, 0>>, <<"spike", MonthlyPeriod + 1, 2, -1>>,
                <<"periodic", 1, 2, -1>>}}
NoSTL == [trend |-> <<>>, seasonal |-> <<>>]

\* the columns of x_new handed to STL as endog in iteration i of the loop of
\* fit: x_new itself, whatever i is
stl_endog(x, i) == 0..(x.ncols - 1)

\* STL(endog=x_new, period=...) raises ValueError for a period below 2 and for
\* an endog that is not one series: x_new is passed whole, so every 2-D input
\* with several columns
stl_raises(x, period) == period < 2 \/ Cardinality(stl_endog(x, 0)) >= 2

\* the slice seasonal[j :: j + 1] of fit
cycle_slice(n, j, period) == {i \in j..(n - 1) : (i - j) % (j + 1) = 0}

\* numpy mean over an index set: nan when the set is empty
mean_over(s, idx) ==
    IF idx = {} THEN Null ELSE mean([i \in DOMAIN s |-> IF i \in idx THEN s[i] ELSE Null])

fit_trend(res) ==
    RDivInt(RSub(res.trend[0], res.trend[SeriesLen(res.trend) - 1]), SeriesLen(res.trend))

fit_cycle(res, period) ==
    [j \in 0..(period - 1) |->
        mean_over(res.seasonal, cycle_slice(SeriesLen(res.seasonal), j, period))]

\* slip: the flag is set before the decomposition has succeeded
fit_is_fitted_early(before, raised) == TRUE

\* is_fitted after fit: set on the last line only
fit_is_fitted(before, raised) == IF raised THEN before ELSE TRUE

\* the extension rows of ForeCaster.transform / BackCaster.transform
ext_value(c, tr, cy, i, j) ==
    IF c.class = "ForeCaster"
    THEN NAdd(NMul(RInt(i), tr[j]), cy[j][i % c.period])
    ELSE NAdd(NMul(RInt(c.steps - i), tr[j]), cy[j][i % c.period])

Call(op, status, x, out, stl) == [op |-> op, status |-> status, x |-> x, out |-> out, stl |-> stl]

\* transform, as a function of the caster's state: the call record it produces
transform(c, fitted, tr, cy, x) ==
    LET x_new == as_columns(x)
        n == NRows(x_new)
        k == x_new.ncols
        x_ext == IF c.steps = 0
                 THEN Array1(EmptyCol)
                 ELSE Array2([i \in 0..(c.steps - 1) |->
                                [j \in 0..(k - 1) |-> ext_value(c, tr, cy, i, j)]], k)
        joined == IF c.class = "ForeCaster"
                  THEN [i \in 0..(n + c.steps - 1) |->
                            IF i < n THEN x_new.data[i] ELSE x_ext.data[i - n]]
                  ELSE [i \in 0..(n + c.steps - 1) |->
                            IF i < c.steps THEN x_ext.data[i] ELSE x_new.data[i - c.steps]]
    IN IF ~fitted \/ tr = <<>> \/ cy = <<>>
       THEN Call("transform", "NotFitted", x, NoArray, NoSTL)
       ELSE IF c.steps > 0 /\ k > SeriesLen(tr)
       THEN Call("transform", "IndexError", x, NoArray, NoSTL)
       ELSE IF c.only_return_extended
       THEN Call("transform", "ok", x, flatten_single(x_ext), NoSTL)
       ELSE IF x_ext.ndim # x_new.ndim
       THEN Call("transform", "ValueError", x, NoArray, NoSTL)
       ELSE Call("transform", "ok", x, flatten_single(Array2(joined, k)), NoSTL)

\* the arrays transform is called with
TransformInputs ==
    {Array1(EmptyCol), Array1([i \in 0..1 |-> RInt(i + 7)]),
     Array2([i \in 0..0 |-> [j \in 0..1 |-> RInt(j + 7)]], 2)}

CasterInit ==
    /\ caster \in CasterConfigs
    /\ is_fitted = FALSE
    /\ trends = <<>>
    /\ cycles = <<>>
    /\ last_call = Call("init", "ok", NoArray, NoArray, NoSTL)
    /\ fit_completed = FALSE

\* BaseCaster.fit: trends and cycles are reset first, then every column is
\* decomposed; is_fitted is set once the loop is through
FitRaises(x) ==
    /\ stl_raises(x, caster.period)
    /\ trends' = zeros1(x.ncols)
    /\ cycles' = zeros2(x.ncols, caster.period)
    /\ is_fitted' = fit_is_fitted(is_fitted, TRUE)
    /\ last_call' = Call("fit", "ValueError", x, NoArray, NoSTL)
    /\ UNCHANGED <<caster, fit_completed>>

FitReturns(x, res) ==
    /\ ~stl_raises(x, caster.period)
    /\ trends' = [j \in 0..(x.ncols - 1) |-> fit_trend(res)]
    /\ cycles' = [j \in 0..(x.ncols - 1) |-> fit_cycle(res, caster.period)]
    /\ is_fitted' = fit_is_fitted(is_fitted, FALSE)
    /\ last_call' = Call("fit", "ok", x, NoArray, res)
    /\ fit_completed' = TRUE
    /\ UNCHANGED caster

Fit ==
    \E x \in FitInputs :
        \/ FitRaises(x)
        \/ \E res \in STLResults(x.nobs) : FitReturns(x, res)

Transform ==
    \E x \in TransformInputs :
        /\ last_call' = transform(caster, is_fitted, trends, cycles, x)
        /\ UNCHANGED <<caster, is_fitted, trends, cycles, fit_completed>>

----------------------------------------------------------------------------
(* Renamer (helpers/Renamer.py). A name is the sequence of its characters. *)

\* Python's None passed as the name
NoneName == <<"None">>

\* the grave accent, which a string of this language cannot hold
Backtick == "grave accent"

\* Renamer.__init__: default_rename_dict
rename_dict ==
    [c \in {"!", "\"", "'", "(", ")"} |-> <<>>]
    @@ [c \in {" ", "-", ".", "/", ":", ";", "[", "\\", "]", Backtick, "{", "}"} |-> <<"_">>]
    @@ ("#" :> <<"n", "u", "m", "b", "e", "r">>)
    @@ ("$" :> <<"d", "o", "l", "l", "a", "r">>)
    @@ ("%" :> <<"p", "e", "r", "c", "e", "n", "t">>)
    @@ ("&" :> <<"a", "n", "d">>)
    @@ ("*" :> <<"s", "t", "a", "r">>)
    @@ ("+" :> <<"p", "l", "u", "s">>)
    @@ ("," :> <<"-">>)
    @@ ("<" :> <<"l", "e", "s", "s", "t", "h", "a", "n">>)
    @@ ("=" :> <<"e", "q", "u", "a", "l", "s">>)
    @@ (">" :> <<"g", "r", "e", "a", "t", "e", "r", "t", "h", "a", "n">>)
    @@ ("?" :> <<"q", "u", "e", "s", "t", "i", "o", "n">>)
    @@ ("@" :> <<"a", "t">>)
    @@ ("^" :> <<"c", "a", "r", "e", "t">>)
    @@ ("|" :> <<"p", "i", "p", "e">>)
    @@ ("~" :> <<"t", "i", "l", "d", "e">>)

\* str.translate(str.maketrans(rename_dict)): one pass, character by character;
\* a character without an entry stays
RECURSIVE translate(_)
translate(name) ==
    IF name = <<>> THEN <<>>
    ELSE (IF Head(name) \in DOMAIN rename_dict THEN rename_dict[Head(name)]
          ELSE <<Head(name)>>) \o translate(Tail(name))

\* str.strip("_")
RECURSIVE lstrip(_)
lstrip(name) ==
    IF name # <<>> /\ Head(name) = "_" THEN lstrip(Tail(name)) ELSE name
RECURSIVE rstrip(_)
rstrip(name) ==
    IF name # <<>> /\ name[Len(name)] = "_"
    THEN rstrip(SubSeq(name, 1, Len(name) - 1)) ELSE name
strip(name) == rstrip(lstrip(name))

\* str.lower() on ASCII letters
UpperCase == <<"A", "B", "C", "D", "E", "F", "G", "H", "I", "J", "K", "L", "M",
               "N", "O", "P", "Q", "R", "S", "T", "U", "V", "W", "X", "Y", "Z">>
LowerCase == <<"a", "b", "c", "d", "e", "f", "g", "h", "i", "j", "k", "l", "m",
               "n", "o", "p", "q", "r", "s", "t", "u", "v", "w", "x", "y", "z">>
lower(name) ==
    [i \in DOMAIN name |->
        IF \E u \in DOMAIN UpperCase : UpperCase[u] = name[i]
        THEN LowerCase[CHOOSE u \in DOMAIN UpperCase : UpperCase[u] = name[i]]
        ELSE name[i]]

Unnamed == <<"u", "n", "n", "a", "m", "e", "d">>

\* Renamer.rename_inner_ (the lru_cache does not change what it returns)
rename_inner_(name) ==
    IF name = NoneName \/ name = <<>> THEN Unnamed
    ELSE LET clean == lower(strip(translate(name)))
         IN IF clean = <<>> THEN Unnamed ELSE clean

\* the decimal digits of a natural number, as the f-string prints them
Digits == <<"0", "1", "2", "3", "4", "5", "6", "7", "8", "9">>
RECURSIVE Decimal(_)
Decimal(k) ==
    IF k < 10 THEN <<Digits[k + 1]>> ELSE Decimal(k \div 10) \o <<Digits[(k % 10) + 1]>>

\* slip: the suffix counts from the first repetition
rename_suffixed_from_one(base, count) ==
    IF count = 1 THEN base ELSE base \o <<"_">> \o Decimal(count - 1)

\* the name rename returns once counts[base] has been updated to count
rename_suffixed(base, count) ==
    IF count = 1 THEN base ELSE base \o <<"_">> \o Decimal(count)

\* the names rename is called with
RenameInputs ==
    {NoneName, <<>>, <<"!">>, <<"a">>, <<"A">>, <<"_", "a", "_">>,
     <<"a", "_", "2">>, <<"a", ",", "b">>, <<"#">>}

RenamerInit ==
    /\ counts = <<>>
    /\ rename_calls = <<>>
    /\ renamed = <<>>

\* Renamer.rename
Rename ==
    \E name \in RenameInputs :
        LET base == rename_inner_(name)
            count == IF base \in DOMAIN counts THEN counts[base] + 1 ELSE 1
        IN /\ Len(rename_calls) < MaxCalls
           /\ counts' = [b \in DOMAIN counts \cup {base} |->
                            IF b = base THEN count ELSE counts[b]]
           /\ renamed' = rename_suffixed(base, count)
           /\ rename_calls' = Append(rename_calls, name)

----------------------------------------------------------------------------
(* Cleaner (etl/cleaners/Cleaner.py). A frame is a function from 0..n-1 to   *)
(* rows; its schema gives the column names in order and their logical types. *)
(* Every cell is a number or Null: the strings, categories, booleans, dates   *)
(* and times of a column are coded by numbers, 0 coding "unknown" and False.  *)

\* lf.collect_schema().names()
CleanerCols == <<"a", "b", "c">>
ColSet(names) == {names[i] : i \in DOMAIN names}
lf_cols(f) == CleanerCols
width(f) == Len(lf_cols(f))
NRowsOf(f) == Cardinality(DOMAIN f)

\* the logical types of the columns a, b, c of the enumerated frames
Schemas ==
    {[a |-> "numeric", b |-> "string", c |-> "date"],
     [a |-> "numeric", b |-> "categorical", c |-> "time"],
     [a |-> "numeric", b |-> "boolean", c |-> "date"]}

CleanerRows ==
    [a : {Null, RInt(1), RInt(2)}, b : {Null, RInt(1)}, c : {Null, RInt(1)}]
CleanerFrames ==
    UNION {[0..(n - 1) -> CleanerRows] : n \in 0..MaxFrameRows}

\* the cols / cols_to_ignore arguments: None, a string, a list of names
NoCols == [kind |-> "none", names |-> <<>>]
StrCols(name) == [kind |-> "str", names |-> <<name>>]
ListCols(names) == [kind |-> "list", names |-> names]
ColsArgs ==
    {NoCols, StrCols("a"), StrCols("z"), ListCols(<<>>), ListCols(<<"a">>),
     ListCols(<<"c", "a">>), ListCols(<<"a", "a">>), ListCols(<<"z", "b">>)}

\* slip: the list branch walks the frame's columns as the string branch does
cols_from_provided_cols_frame_order(f, cols) ==
    SelectSeq(lf_cols(f), LAMBDA name : name \in ColSet(cols.names))

\* Cleaner.cols_from_provided_cols_: the string branch walks the frame's
\* columns, the list branch walks the requested names
cols_from_provided_cols_(f, cols) ==
    CASE cols.kind = "str" -> SelectSeq(lf_cols(f), LAMBDA name : name = cols.names[1])
      [] cols.kind = "list" -> SelectSeq(cols.names, LAMBDA name : name \in ColSet(lf_cols(f)))
      [] cols.kind = "none" -> <<>>

\* the outcome of a Cleaner call: the frame or the list of names it returned
NoFrame == [i \in {} |-> Null]
CleanerCall(op, cols, arg, status, frame, names) ==
    [op |-> op, cols |-> cols, arg |-> arg, status |-> status, frame |-> frame, names |-> names]

\* the rows of f at the indices idx, in order
RECURSIVE KeepRows(_, _, _)
KeepRows(f, idx, from) ==
    IF from >= NRowsOf(f) THEN <<>>
    ELSE (IF from \in idx THEN <<f[from]>> ELSE <<>>) \o KeepRows(f, idx, from + 1)
\* a sequence of rows as a frame
AsFrame(rows) == [i \in 0..(Len(rows) - 1) |-> rows[i + 1]]
filter(f, idx) == AsFrame(KeepRows(f, idx, 0))

\* the non_null_threshold arguments: None, values of [0, 1], values outside
Thresholds == {Null, RInt(0), RNorm(1, 2), RInt(1), RInt(2)}

\* Cleaner.remove_nulls
remove_nulls(f, cols_to_ignore, non_null_threshold) ==
    IF IsNull(non_null_threshold)
    THEN CleanerCall("remove_nulls", cols_to_ignore, non_null_threshold, "ok", f, <<>>)
    ELSE IF RLess(non_null_threshold, RInt(0)) \/ RLess(RInt(1), non_null_threshold)
    THEN CleanerCall("remove_nulls", cols_to_ignore, non_null_threshold, "ValueError",
                     NoFrame, <<>>)
    ELSE
        LET cols == cols_from_provided_cols_(f, cols_to_ignore)
            \* pl.all() or pl.exclude(cols)
            pl_cols == ColSet(lf_cols(f)) \ ColSet(cols)
            divisor == IF width(f) - Len(cols) >= 1 THEN width(f) - Len(cols) ELSE 1
            sum_horizontal(i) == Cardinality({c \in pl_cols : ~IsNull(f[i][c])})
            keep == {i \in DOMAIN f :
                        ~RLess(RNorm(sum_horizontal(i), divisor), non_null_threshold)}
        IN CleanerCall("remove_nulls", cols_to_ignore, non_null_threshold, "ok",
                       filter(f, keep), <<>>)

\* the orders in which the rows idx of a frame can be listed
Orderings(idx) ==
    {p \in [0..(Cardinality(idx) - 1) -> idx] :
        \A i, j \in DOMAIN p : i # j => p[i] # p[j]}

\* LazyFrame.unique() with its defaults keep="any", maintain_order=False: one
\* row per distinct row, in an order the engine chooses
unique(f) ==
    LET firsts == {i \in DOMAIN f : \A k \in DOMAIN f : k < i => f[k] # f[i]}
    IN {[r \in DOMAIN p |-> f[p[r]]] : p \in Orderings(firsts)}

\* the fill value and fill strategy fill_nulls takes per logical type; no
\* value is Null, no strategy is "none"
Unknown == RInt(0)
FillArg(value, strategy) == [value |-> value, strategy |-> strategy]
DefaultFill ==
    [string |-> FillArg(Unknown, "none"), categorical |-> FillArg(Unknown, "none"),
     numeric |-> FillArg(Null, "mean"), date |-> FillArg(Null, "backward"),
     time |-> FillArg(Null, "mean"), boolean |-> FillArg(Unknown, "none")]
FillConfigs ==
    {DefaultFill,
     [DefaultFill EXCEPT !.numeric = FillArg(RInt(0), "mean")],
     [DefaultFill EXCEPT !.numeric = FillArg(Null, "zero"), !.date = FillArg(Null, "forward")]}

\* Expr.fill_null(value=..., strategy=...) on one column
fill_null_expr(s, arg) ==
    IF ~IsNull(arg.value)
    THEN [i \in DOMAIN s |-> IF IsNull(s[i]) THEN arg.value ELSE s[i]]
    ELSE fill_null_strategy(s, arg.strategy)

\* Cleaner.fill_nulls on a frame with the schema sch
fill_nulls(f, sch, cfg) ==
    IF \E ty \in DOMAIN cfg : ~IsNull(cfg[ty].value) /\ cfg[ty].strategy # "none"
    THEN CleanerCall("fill_nulls", NoCols, cfg, "ValueError", NoFrame, <<>>)
    ELSE
        LET filled(c) == fill_null_expr([i \in DOMAIN f |-> f[i][c]], cfg[sch[c]])
        IN CleanerCall("fill_nulls", NoCols, cfg, "ok",
                       [i \in DOMAIN f |-> [c \in ColSet(lf_cols(f)) |-> filled(c)[i]]], <<>>)

\* the order of two cells in a sorted column: nulls first, then by value,
\* ascending or descending
CellBefore(u, v, descending) ==
    \/ IsNull(u) /\ ~IsNull(v)
    \/ ~IsNull(u) /\ ~IsNull(v) /\ (IF descending THEN RLess(v, u) ELSE RLess(u, v))

\* whether row r comes strictly before row q when sorting by the columns by
RECURSIVE RowBefore(_, _, _, _)
RowBefore(r, q, by, descending) ==
    /\ by # <<>>
    /\ \/ CellBefore(r[Head(by)], q[Head(by)], descending)
       \/ r[Head(by)] = q[Head(by)] /\ RowBefore(r, q, Tail(by), descending)

\* LazyFrame.sort(by=..., descending=...): rows with equal keys come in an
\* order the engine chooses (maintain_order=False)
lf_sort(f, by, descending) ==
    {[r \in DOMAIN p |-> f[p[r]]] : p \in
        {o \in Orderings(DOMAIN f) :
            \A r, q \in DOMAIN o : r < q => ~RowBefore(f[o[q]], f[o[r]], by, descending)}}

\* the descending argument as the caller writes it, and the value the
\* parameter is then bound to: its default is False
DescendingArgs == {"unsupplied", "True", "None"}
sort_descending(arg) == IF arg = "unsupplied" THEN "False" ELSE arg

\* Cleaner.sort: the frames it can return. descending=None is passed together
\* with cols=None only.
sort(f, cols, arg) ==
    LET descending == sort_descending(arg)
        found == cols_from_provided_cols_(f, cols)
        by == IF Len(found) <= 0 THEN lf_cols(f) ELSE found
    IN IF cols.kind = "none" /\ descending = "None" THEN {f}
       ELSE lf_sort(f, by, descending = "True")

\* The methods are static and leave the frame as it is: a behaviour is one
\* frame and one call on it.
NotCleaned == cleaned.op = "init"

CleanerInit ==
    /\ lf \in CleanerFrames
    /\ schema \in Schemas
    /\ cleaned = CleanerCall("init", NoCols, Null, "ok", NoFrame, <<>>)

ColsFromProvided ==
    \E cols \in ColsArgs :
        /\ NotCleaned
        /\ cleaned' = CleanerCall("cols_from_provided_cols_", cols, Null, "ok", NoFrame,
                                  cols_from_provided_cols_(lf, cols))
        /\ UNCHANGED <<lf, schema>>

RemoveNulls ==
    \E cols \in ColsArgs, threshold \in Thresholds :
        /\ NotCleaned
        /\ cleaned' = remove_nulls(lf, cols, threshold)
        /\ UNCHANGED <<lf, schema>>

\* Cleaner.remove_duplicates
RemoveDuplicates ==
    \E out \in unique(lf) :
        /\ NotCleaned
        /\ cleaned' = CleanerCall("remove_duplicates", NoCols, Null, "ok", out, <<>>)
        /\ UNCHANGED <<lf, schema>>

FillNulls ==
    \E cfg \in FillConfigs :
        /\ NotCleaned
        /\ cleaned' = fill_nulls(lf, schema, cfg)
        /\ UNCHANGED <<lf, schema>>

Sort ==
    \E cols \in ColsArgs, arg \in DescendingArgs :
        /\ NotCleaned
        /\ arg = "None" => cols.kind = "none"
        /\ \E out \in sort(lf, cols, arg) :
              cleaned' = CleanerCall("sort", cols, arg, "ok", out, <<>>)
        /\ UNCHANGED <<lf, schema>>

----------------------------------------------------------------------------
(* OutlierRemover (etl/outliers/outlier_remover.py). A table is a function  *)
(* from 0..n-1 to rows, a row a function from the feature columns to        *)
(* numbers. Z-scores are compared through their squares, which are          *)
(* rational: |z| <= t iff z*z <= t*t for the thresholds t >= 0 used here.   *)

Containers == {"ndarray", "DataFrame", "LazyFrame"}
FeatureCols == 0..1
OutlierVals == {0, 5}
Tables ==
    UNION {[0..(n - 1) -> [FeatureCols -> {RInt(v) : v \in OutlierVals}]] :
            n \in 1..MaxTableRows}
OutlierThresholds == {RInt(1), RNorm(7, 5), RInt(3)}

\* y: None, or rows of one or two columns in some container; a numpy y is 1-D
\* or 2-D. Row i of a y of one column holds the number i.
NoY == [container |-> "None", ndim |-> 0, ncols |-> 0, data |-> <<>>]
YOf(container, ndim, ncols, n) ==
    [container |-> container, ndim |-> ndim, ncols |-> ncols,
     data |-> [i \in 0..(n - 1) |-> RInt(i)]]
YArgs(container, n) ==
    {NoY, YOf(container, 2, 1, n), YOf(container, 2, 1, n + 1), YOf(container, 2, 2, n)}
    \cup {YOf(other, 2, 1, n) : other \in Containers \ {container}}
    \cup (IF container = "ndarray" THEN {YOf(container, 1, 1, n)} ELSE {})

RDiv(a, b) == RNorm(a[1] * b[2], a[2] * b[1])

\* the values st.zscore standardizes together with cell (i, j): column j for
\* axis=0, row i for axis=1
zscore_sample(x, i, j, axis) ==
    IF axis = 0
    THEN [r \in DOMAIN x |-> x[r][j]]
    ELSE [c \in FeatureCols |-> x[i][c]]

\* the square of st.zscore(x, axis=axis)[i, j]: nan where the sample is
\* constant (0 / 0)
zscore2(x, i, j, axis) ==
    LET sample == zscore_sample(x, i, j, axis)
        mn == mean(sample)
        dev2(v) == RMul(RSub(v, mn), RSub(v, mn))
        var == mean([k \in DOMAIN sample |-> dev2(sample[k])])
    IN IF var = RInt(0) THEN Null ELSE RDiv(dev2(x[i][j]), var)

\* the square of np.abs(...).max(axis=1)[i]: nan as soon as one score is nan
max_zscore2(x, i, axis) ==
    LET zs == [j \in FeatureCols |-> zscore2(x, i, j, axis)]
    IN IF \E j \in FeatureCols : IsNull(zs[j]) THEN Null
       ELSE zs[CHOOSE j \in FeatureCols : \A k \in FeatureCols : ~RLess(zs[j], zs[k])]

\* the mask zscores <= threshold: a nan score compares false
zscore_mask(x, axis, threshold) ==
    {i \in DOMAIN x :
        /\ ~IsNull(max_zscore2(x, i, axis))
        /\ ~RLess(RMul(threshold, threshold), max_zscore2(x, i, axis))}

Removal(container, y, threshold, status, x_new, y_new) ==
    [container |-> container, y |-> y, threshold |-> threshold, status |-> status,
     x_new |-> x_new, y_new |-> y_new]
NoRemoval == Removal("None", NoY, Null, "none", NoFrame, NoY)

\* slip: y is returned as it came
filter_y_unfiltered(y, keep) == y

\* y filtered with the mask computed from X
filter_y(y, keep) == [y EXCEPT !.data = filter(y.data, keep)]

\* slip: the row counts of X and y are not compared
polars_y_invalid_columns_only(x, y) == y.ncols # 1

\* the checks of _polars on y: one column, as many rows as X
polars_y_invalid(x, y) == y.ncols # 1 \/ NRowsOf(x) # NRowsOf(y.data)

\* the checks of _numpy on y: 1-D or 2-D with one column, as many rows as X
numpy_y_invalid(x, y) ==
    ~((y.ndim = 2 /\ y.ncols = 1) \/ y.ndim = 1) \/ NRowsOf(x) # NRowsOf(y.data)

\* OutlierRemover._polars, on the frames of the given container type
remove_polars(container, x, y, threshold) ==
    LET keep == zscore_mask(x, 0, threshold)
    IN IF y = NoY
       THEN Removal(container, y, threshold, "ok", filter(x, keep), NoY)
       ELSE IF polars_y_invalid(x, y)
       THEN Removal(container, y, threshold, "ValueError", NoFrame, NoY)
       ELSE Removal(container, y, threshold, "ok", filter(x, keep), filter_y(y, keep))

\* OutlierRemover._numpy
remove_numpy(x, y, threshold) ==
    LET keep == zscore_mask(x, 1, threshold)
    IN IF y = NoY
       THEN Removal("ndarray", y, threshold, "ok", filter(x, keep), NoY)
       ELSE IF numpy_y_invalid(x, y)
       THEN Removal("ndarray", y, threshold, "ValueError", NoFrame, NoY)
       ELSE Removal("ndarray", y, threshold, "ok", filter(x, keep), filter_y(y, keep))

\* OutlierRemover.remove: the match on the types of X and y
remove(container, x, y, threshold) ==
    IF y # NoY /\ y.container # container
    THEN Removal(container, y, threshold, "ValueError", NoFrame, NoY)
    ELSE IF container = "ndarray" THEN remove_numpy(x, y, threshold)
    ELSE remove_polars(container, x, y, threshold)

OutlierInit ==
    /\ table \in Tables
    /\ removed = NoRemoval

\* one call of the static method per table
Remove ==
    \E container \in Containers, threshold \in OutlierThresholds :
        \E y \in YArgs(container, NRowsOf(table)) :
            /\ removed = NoRemoval
            /\ removed' = remove(container, table, y, threshold)
            /\ UNCHANGED table

----------------------------------------------------------------------------
(* OutlierSmoother (etl/outliers/outlier_smoother.py). The standard         *)
(* deviation is a square root: a value is compared with mean +- k*std        *)
(* through squares, and a float cell clipped to such a bound holds the       *)
(* bound itself, written as a cell of kind "max_val" or "min_val".           *)

SmoothVals == {0, 1, 10}
SmoothCols ==
    UNION {[0..(n - 1) -> {Null} \cup {RInt(v) : v \in SmoothVals}] : n \in 1..MaxSmoothLen}
\* frames of a numeric column num of the given dtype and a string column str,
\* whose cells are coded by numbers
SmoothFrames ==
    {[dtype |-> d, num |-> c, str |-> [i \in DOMAIN c |-> IF i = 0 THEN Null ELSE RInt(i)]] :
        d \in {"integer", "float"}, c \in SmoothCols}
MaxZscores == {RInt(0), RInt(1), RNorm(3, 2)}

Cell(kind, v) == [kind |-> kind, v |-> v]

\* Series.std(): the sample standard deviation (ddof = 1) squared; null with
\* fewer than two values
variance(s) ==
    LET nn == NotNullIdx(s)
        mn == mean(s)
        dev2 == [i \in DOMAIN s |->
                    IF IsNull(s[i]) THEN Null ELSE RMul(RSub(s[i], mn), RSub(s[i], mn))]
    IN IF Cardinality(nn) < 2 THEN Null
       ELSE RDivInt(SumRange(dev2, 0, SeriesLen(s) - 1), Cardinality(nn) - 1)

\* v > mean + k*std and v < mean - k*std
above_max_val(v, mn, var, k) ==
    /\ RLess(mn, v)
    /\ RLess(RMul(RMul(k, k), var), RMul(RSub(v, mn), RSub(v, mn)))
below_min_val(v, mn, var, k) ==
    /\ RLess(v, mn)
    /\ RLess(RMul(RMul(k, k), var), RMul(RSub(v, mn), RSub(v, mn)))

\* the whole numbers int() can return for the bounds of these columns
SmoothInts == -40..40

\* v = mean + k*std for upper, v = mean - k*std otherwise
on_bound(v, mn, var, k, upper) ==
    /\ IF upper THEN ~RLess(v, mn) ELSE ~RLess(mn, v)
    /\ RMul(RSub(v, mn), RSub(v, mn)) = RMul(RMul(k, k), var)

\* int(max_val) for upper, int(min_val) otherwise: the bound truncated towards
\* zero
int_bound(mn, var, k, upper) ==
    LET at_most(z) == IF upper THEN ~above_max_val(RInt(z), mn, var, k)
                      ELSE below_min_val(RInt(z), mn, var, k)
                           \/ on_bound(RInt(z), mn, var, k, upper)
        at_least(z) == IF upper THEN above_max_val(RInt(z), mn, var, k)
                                     \/ on_bound(RInt(z), mn, var, k, upper)
                       ELSE ~below_min_val(RInt(z), mn, var, k)
    IN IF at_most(0)
       THEN SetMax({z \in SmoothInts : at_most(z)})
       ELSE SetMin({z \in SmoothInts : at_least(z)})

\* OutlierSmoother.smooth_col_ on a column of the given dtype: the cells it
\* returns; mean + k * None raises when the column has fewer than two values
smooth_col_(k, dtype, X) ==
    LET mn == mean(X)
        var == variance(X)
        max_val == IF dtype = "integer" THEN Cell("value", RInt(int_bound(mn, var, k, TRUE)))
                   ELSE Cell("max_val", Null)
        min_val == IF dtype = "integer" THEN Cell("value", RInt(int_bound(mn, var, k, FALSE)))
                   ELSE Cell("min_val", Null)
        above(v) == IF dtype = "integer" THEN RLess(max_val.v, v)
                    ELSE above_max_val(v, mn, var, k)
        below(v) == IF dtype = "integer" THEN RLess(v, min_val.v)
                    ELSE below_min_val(v, mn, var, k)
    IN IF IsNull(var) THEN Raised("TypeError")
       ELSE Ok([i \in DOMAIN X |->
                  IF IsNull(X[i]) THEN Cell("value", Null)
                  ELSE IF above(X[i]) THEN max_val
                  ELSE IF below(X[i]) THEN min_val
                  ELSE Cell("value", X[i])])

\* OutlierSmoother.smooth: the numeric column is smoothed, the string column
\* is selected as it is
smooth(k, f) ==
    LET res == smooth_col_(k, f.dtype, f.num)
    IN IF res.kind = "ok"
       THEN [status |-> "ok", num |-> res.col, str |-> f.str]
       ELSE [status |-> "error", num |-> <<>>, str |-> <<>>]

NotSmoothed == [status |-> "none", num |-> <<>>, str |-> <<>>]

SmootherInit ==
    /\ smoother \in [max_zscore : MaxZscores]
    /\ sframe \in SmoothFrames
    /\ smoothed = NotSmoothed

Smooth ==
    /\ smoothed' = smooth(smoother.max_zscore, sframe)
    /\ UNCHANGED <<smoother, sframe>>

----------------------------------------------------------------------------
(* ScalerNDim (transformers/scaling/scaler_n_dim.py). An array is the      *)
(* sequence of its elements: max() and the division do not depend on its   *)
(* shape.                                                                   *)

ScalerVals == {-2, 0, 4, 8}
ScalerArrays ==
    UNION {[0..(n - 1) -> {RInt(v) : v \in ScalerVals}] : n \in 1..MaxArrayLen}
DivisorArgs == {Null, RInt(0), RInt(2)}
PreventArgs == {RNorm(1, 100), RInt(1)}

\* ScalerNDim.__init__ raises ValueError("divisor cannot be 0")
scaler_init_raises(divisor) == ~IsNull(divisor) /\ divisor = RInt(0)

\* X.max()
array_max(X) == CHOOSE m \in {X[i] : i \in DOMAIN X} : \A i \in DOMAIN X : ~RLess(m, X[i])

\* ScalerNDim.fit: the instance after the call
scaler_fit(self, X) ==
    IF IsNull(self.divisor)
    THEN LET max_val == array_max(X)
         IN [self EXCEPT !.divisor =
                IF max_val = RInt(0) THEN RAdd(max_val, self.prevent_div_by_zero_val)
                ELSE max_val]
    ELSE self

\* ScalerNDim.transform: X / None raises TypeError
scaler_transform(self, X) ==
    IF IsNull(self.divisor) THEN Raised("TypeError")
    ELSE Ok([i \in DOMAIN X |-> RDiv(X[i], self.divisor)])

ScalerCall(op, X, res) == [op |-> op, status |-> res.kind, X |-> X, out |-> res.col]
NotScaled == ScalerCall("init", EmptyCol, Ok(EmptyCol))

ScalerInit ==
    /\ scaler_args \in {a \in [divisor : DivisorArgs, prevent_div_by_zero_val : PreventArgs] :
                            ~scaler_init_raises(a.divisor)}
    /\ scaler = scaler_args
    /\ scaled = NotScaled

ScalerFit ==
    \E X \in ScalerArrays :
        /\ scaler' = scaler_fit(scaler, X)
        /\ scaled' = ScalerCall("fit", X, Ok(EmptyCol))
        /\ UNCHANGED scaler_args

ScalerTransform ==
    \E X \in ScalerArrays :
        /\ scaled' = ScalerCall("transform", X, scaler_transform(scaler, X))
        /\ UNCHANGED <<scaler_args, scaler>>

ScalerFitTransform ==
    \E X \in ScalerArrays :
        /\ scaler' = scaler_fit(scaler, X)
        /\ scaled' = ScalerCall("fit_transform", X, scaler_transform(scaler_fit(scaler, X), X))
        /\ UNCHANGED scaler_args

----------------------------------------------------------------------------
(* TransposerNDim (transformers/transposing/transposer_n_dim.py). An array *)
(* is its shape; np.transpose checks the axes as numpy documents it.        *)

Axes == (0 - MaxRank)..MaxRank
AxisTuples == UNION {[1..n -> Axes] : n \in 0..MaxRank}
DimSizes == {2, 3}
Shapes == UNION {[1..n -> DimSizes] : n \in 1..MaxRank}

\* numpy's normalize_axis_index: an axis counts from the end when negative
axis_out_of_range_negative(a, ndim) == a < 0 \/ a >= ndim
axis_out_of_range(a, ndim) == a < 0 - ndim \/ a >= ndim
normalize_axis_index(a, ndim) == IF a < 0 THEN a + ndim ELSE a

TransposerCall(op, status, X, out) == [op |-> op, status |-> status, X |-> X, out |-> out]

\* np.transpose(X, axes) on the shape of X; AxisError is a ValueError
transpose(X, axes) ==
    LET ndim == Len(X)
        at(i) == normalize_axis_index(axes[i], ndim)
    IN IF Len(axes) # ndim THEN TransposerCall("transform", "ValueError", X, <<>>)
       ELSE IF \E i \in 1..ndim : axis_out_of_range(axes[i], ndim)
       THEN TransposerCall("transform", "AxisError", X, <<>>)
       ELSE IF \E i, j \in 1..ndim : i # j /\ at(i) = at(j)
       THEN TransposerCall("transform", "ValueError", X, <<>>)
       ELSE TransposerCall("transform", "ok", X, [i \in 1..ndim |-> X[at(i) + 1]])

NotTransposed == TransposerCall("init", "ok", <<>>, <<>>)

TransposerInit ==
    /\ transposer \in [transpose_dims : AxisTuples]
    /\ transposed = NotTransposed

TransposerFit ==
    \E X \in Shapes :
        /\ transposed' = TransposerCall("fit", "ok", X, <<>>)
        /\ UNCHANGED transposer

TransposerTransform ==
    \E X \in Shapes :
        /\ transposed' = transpose(X, transposer.transpose_dims)
        /\ UNCHANGED transposer

----------------------------------------------------------------------------
(* MultiTimeSeriesExtender (transformers/time_series/extenders.py). A      *)
(* frame X is the set of the months of its date column and has one column  *)
(* of every type forward and backward select; of a column only its length  *)
(* is followed.                                                             *)

ExtenderPeriods == {"monthly", "yearly", "weekly"}
BinaryArgs == {"int", "bytes"}
ExtenderArgs ==
    [period : ExtenderPeriods,
     steps : 1..MaxSteps,
     binary_value : BinaryArgs,
     duration_strategy : {"forward", "mean"},
     string_strategy : {"forward", "forward_then_backward"},
     time_strategy : {"mean"},
     only_return_extended : BOOLEAN]

\* the arguments MultiTimeSeriesExtender() is built with by default
ExtenderDefaults(steps) ==
    [period |-> "monthly", steps |-> steps, binary_value |-> "int",
     duration_strategy |-> "forward", string_strategy |-> "forward",
     time_strategy |-> "mean", only_return_extended |-> FALSE]

\* MultiTimeSeriesExtender.__init__ raises ValueError
extender_init_raises(a) == a.period \notin {"daily", "monthly", "yearly"}

\* MultiTimeSeriesGapFiller.__init__ called with the extender's attributes:
\* the exception its validation raises, or "ok"
gap_filler_init(self) ==
    IF self.binary_value # "bytes" THEN "TypeError"
    ELSE IF self.duration_strategy \notin DurationStrategies THEN "ValueError"
    ELSE IF self.string_strategy \notin StringStrategies THEN "ValueError"
    ELSE IF self.time_strategy \notin DurationStrategies THEN "ValueError"
    ELSE "ok"

ExtenderFrames == (SUBSET (1..MaxMonth)) \ {{}}
\* rows of the gap-filled frame: one per month from the first to the last
gap_filled_rows(X) == SetMax(X) - SetMin(X) + 1

ExtenderColumns == {"date", "numeric", "binary", "boolean", "duration", "string", "time"}
ColumnExtender(arg, steps, only_return_extended) ==
    [arg |-> arg, steps |-> steps, only_return_extended |-> only_return_extended]

\* the extender forward builds for each column type; an argument left out
\* takes the default False
forward_extenders(self) ==
    [c \in ExtenderColumns |->
        CASE c = "numeric" -> ColumnExtender(self.period, self.steps, self.only_return_extended)
          [] c = "date" -> ColumnExtender(self.period, self.steps, FALSE)
          [] c \in {"binary", "boolean"} -> ColumnExtender("zero", self.steps, FALSE)
          [] c \in {"duration", "time"} -> ColumnExtender("mean", self.steps, FALSE)
          [] c = "string" -> ColumnExtender("forward", self.steps, FALSE)]

\* the extender backward builds for each column type
backward_extenders(self) ==
    [c \in ExtenderColumns |->
        CASE c \in {"numeric", "date"} ->
                ColumnExtender(self.period, self.steps, self.only_return_extended)
          [] c \in {"binary", "boolean"} ->
                ColumnExtender("zero", self.steps, self.only_return_extended)
          [] c \in {"duration", "time"} ->
                ColumnExtender("mean", self.steps, self.only_return_extended)
          [] c = "string" ->
                ColumnExtender("backward", self.steps, self.only_return_extended)]

\* months of the offset of DateTimeSeriesExtender.period_to_offset
OffsetMonths(period) == IF period = "monthly" THEN 1 ELSE 12

\* length of pl.date_range(start, end, interval), in months
date_range_len(start, end, every) == IF end < start THEN 0 ELSE (end - start) \div every + 1

\* DateTimeSeriesExtender.forward / backward: length of the series returned
dts_forward_len(e, X) ==
    LET off == OffsetMonths(e.arg)
        start == IF e.only_return_extended THEN SetMax(X) + off ELSE SetMin(X)
    IN date_range_len(start, SetMax(X) + e.steps * off, off)
dts_backward_len(e, X) ==
    LET off == OffsetMonths(e.arg)
        end == IF e.only_return_extended THEN SetMin(X) - off ELSE SetMax(X)
    IN date_range_len(SetMin(X) - e.steps * off, end, off)

\* NonNumericalTimeSeriesExtender.forward / backward: length of the series
nnts_len(e, n) == IF e.only_return_extended THEN e.steps ELSE n + e.steps

\* NumericalTimeSeriesExtender.forward / backward: the caster raises when the
\* decomposition does; otherwise it returns steps or n + steps values
nts_raises(e, stl_fails) == PeriodOf(e.arg) < 2 \/ stl_fails
nts_len(e, n) == IF e.only_return_extended THEN e.steps ELSE n + e.steps

ExtenderCall(op, filler_status, status, rows, extenders, lengths) ==
    [op |-> op, filler |-> filler_status, status |-> status, rows |-> rows,
     extenders |-> extenders, lengths |-> lengths]
NotExtended == ExtenderCall("init", "none", "ok", 0, <<>>, <<>>)

\* forward and backward after the gap filler: es are the per-type extenders
extend(op, self, X, es, stl_fails) ==
    LET n == gap_filled_rows(X)
        lengths == [c \in ExtenderColumns |->
                      CASE c = "date" -> IF op = "forward" THEN dts_forward_len(es[c], X)
                                         ELSE dts_backward_len(es[c], X)
                        [] c = "numeric" -> nts_len(es[c], n)
                        [] OTHER -> nnts_len(es[c], n)]
    IN IF gap_filler_init(self) # "ok"
       THEN ExtenderCall(op, gap_filler_init(self), gap_filler_init(self), 0, <<>>, <<>>)
       ELSE IF nts_raises(es["numeric"], stl_fails)
       THEN ExtenderCall(op, "ok", "ValueError", n, es, <<>>)
       ELSE ExtenderCall(op, "ok", "ok", n, es, lengths)

forward(self, X, stl_fails) == extend("forward", self, X, forward_extenders(self), stl_fails)
backward(self, X, stl_fails) == extend("backward", self, X, backward_extenders(self), stl_fails)

ExtenderInit ==
    /\ extender \in {a \in ExtenderArgs : ~extender_init_raises(a)}
    /\ extended = NotExtended

\* whether STL fails on a short series is statsmodels' decision
Forward ==
    \E X \in ExtenderFrames, stl_fails \in BOOLEAN :
        /\ extended' = forward(extender, X, stl_fails)
        /\ UNCHANGED extender

Backward ==
    \E X \in ExtenderFrames, stl_fails \in BOOLEAN :
        /\ extended' = backward(extender, X, stl_fails)
        /\ UNCHANGED extender

----------------------------------------------------------------------------
(* Specifications: one per component; the other components stay idle *)

FillerIdle == filler = "idle" /\ df = EmptyFrame /\ out_fill = EmptyFrame
ExtIdle == ext = "idle" /\ col = EmptyCol /\ out_regular = NotCalled /\ out_timeseries = NotCalled
CasterIdle ==
    /\ caster = "idle" /\ is_fitted = FALSE /\ trends = <<>> /\ cycles = <<>>
    /\ last_call = Call("init", "ok", NoArray, NoArray, NoSTL) /\ fit_completed = FALSE

RenamerIdle == RenamerInit
TsIdle == ExtIdle /\ FillerIdle /\ CasterIdle
CleanerIdle ==
    /\ lf = NoFrame /\ schema = "idle"
    /\ cleaned = CleanerCall("init", NoCols, Null, "ok", NoFrame, <<>>)
OutlierIdle == table = NoFrame /\ removed = NoRemoval
EtlIdle == RenamerIdle /\ CleanerIdle /\ OutlierIdle
SmootherIdle == smoother = "idle" /\ sframe = "idle" /\ smoothed = NotSmoothed
ScalerIdle == scaler_args = "idle" /\ scaler = "idle" /\ scaled = NotScaled
TransposerIdle == transposer = "idle" /\ transposed = NotTransposed
ExtenderIdle == extender = "idle" /\ extended = NotExtended
MoreIdle == SmootherIdle /\ ScalerIdle /\ TransposerIdle /\ ExtenderIdle

ExtNext ==
    \/ FillRegular /\ UNCHANGED <<fillerVars, casterVars, etlVars, moreVars>>
    \/ FillTimeseries /\ UNCHANGED <<fillerVars, casterVars, etlVars, moreVars>>

InitExtrapolator == ExtInit /\ FillerIdle /\ CasterIdle /\ EtlIdle /\ MoreIdle

FillerNext == Fill /\ UNCHANGED <<extVars, casterVars, etlVars, moreVars>>

InitGapFiller == FillerInit /\ ExtIdle /\ CasterIdle /\ EtlIdle /\ MoreIdle

SpecGapFiller == InitGapFiller /\ [][FillerNext]_vars

CasterNext ==
    \/ Fit /\ UNCHANGED <<extVars, fillerVars, etlVars, moreVars>>
    \/ Transform /\ UNCHANGED <<extVars, fillerVars, etlVars, moreVars>>

InitCaster == CasterInit /\ ExtIdle /\ FillerIdle /\ EtlIdle /\ MoreIdle

SpecCaster == InitCaster /\ [][CasterNext]_vars

SpecExtrapolator == InitExtrapolator /\ [][ExtNext]_vars

RenamerNext == Rename /\ UNCHANGED <<tsVars, cleanerVars, outlierVars, moreVars>>

InitRenamer == RenamerInit /\ TsIdle /\ CleanerIdle /\ OutlierIdle /\ MoreIdle

CleanerNext ==
    \/ ColsFromProvided /\ UNCHANGED <<tsVars, renamerVars, outlierVars, moreVars>>
    \/ RemoveNulls /\ UNCHANGED <<tsVars, renamerVars, outlierVars, moreVars>>
    \/ RemoveDuplicates /\ UNCHANGED <<tsVars, renamerVars, outlierVars, moreVars>>
    \/ FillNulls /\ UNCHANGED <<tsVars, renamerVars, outlierVars, moreVars>>
    \/ Sort /\ UNCHANGED <<tsVars, renamerVars, outlierVars, moreVars>>

InitCleaner == CleanerInit /\ TsIdle /\ RenamerIdle /\ OutlierIdle /\ MoreIdle

SpecCleaner == InitCleaner /\ [][CleanerNext]_vars

OutlierNext == Remove /\ UNCHANGED <<tsVars, renamerVars, cleanerVars, moreVars>>

InitOutlier == OutlierInit /\ TsIdle /\ RenamerIdle /\ CleanerIdle /\ MoreIdle

SpecOutlier == InitOutlier /\ [][OutlierNext]_vars

SpecRenamer == InitRenamer /\ [][RenamerNext]_vars

SmootherNext == Smooth /\ UNCHANGED <<tsVars, etlVars, scalerVars, transposerVars, extenderVars>>

InitSmoother == SmootherInit /\ TsIdle /\ EtlIdle /\ ScalerIdle /\ TransposerIdle /\ ExtenderIdle

SpecSmoother == InitSmoother /\ [][SmootherNext]_vars

ScalerNext ==
    \/ ScalerFit /\ UNCHANGED <<tsVars, etlVars, smootherVars, transposerVars, extenderVars>>
    \/ ScalerTransform /\ UNCHANGED <<tsVars, etlVars, smootherVars, transposerVars, extenderVars>>
    \/ ScalerFitTransform /\ UNCHANGED <<tsVars, etlVars, smootherVars, transposerVars, extenderVars>>

InitScaler == ScalerInit /\ TsIdle /\ EtlIdle /\ SmootherIdle /\ TransposerIdle /\ ExtenderIdle

SpecScaler == InitScaler /\ [][ScalerNext]_vars

TransposerNext ==
    \/ TransposerFit /\ UNCHANGED <<tsVars, etlVars, smootherVars, scalerVars, extenderVars>>
    \/ TransposerTransform /\ UNCHANGED <<tsVars, etlVars, smootherVars, scalerVars, extenderVars>>

InitTransposer == TransposerInit /\ TsIdle /\ EtlIdle /\ SmootherIdle /\ ScalerIdle /\ ExtenderIdle

SpecTransposer == InitTransposer /\ [][TransposerNext]_vars

ExtenderNext ==
    \/ Forward /\ UNCHANGED <<tsVars, etlVars, smootherVars, scalerVars, transposerVars>>
    \/ Backward /\ UNCHANGED <<tsVars, etlVars, smootherVars, scalerVars, transposerVars>>

InitExtender == ExtenderInit /\ TsIdle /\ EtlIdle /\ SmootherIdle /\ ScalerIdle /\ TransposerIdle

SpecExtender == InitExtender /\ [][ExtenderNext]_vars

----------------------------------------------------------------------------
(* Extrapolator: properties *)

NonNullCount(s) == Cardinality(NotNullIdx(s))
Called(out) == out.kind # "none"
SameShape(out, s) == out.kind = "ok" /\ DOMAIN out.col = DOMAIN s
Doc8 == [i \in 0..7 |->
            <<Null, Null, RInt(5), RInt(6), RInt(7), Null, RInt(9), Null>>[i + 1]]

\* C1: with linear interpolation and at least two non-null values, fill_regular
\* returns a - s*(f - i) before the first non-null index f and b + s*(i - l)
\* after the last non-null index l, s being the mean successive difference of
\* the interpolated series; [null,null,5,6,7,null,9,null] gives 3..10.
C1_RegularLinearEdges ==
    (Called(out_regular) /\ ext.interpolation_method = "linear" /\ NonNullCount(col) >= 2) =>
        LET f == SetMin(NotNullIdx(col))
            l == SetMax(NotNullIdx(col))
            s == mean(diff(interpolate(col, "linear")))
        IN /\ SameShape(out_regular, col)
           /\ \A i \in DOMAIN col :
                /\ i < f => out_regular.col[i] = RSub(col[f], RMul(s, RInt(f - i)))
                /\ i > l => out_regular.col[i] = RAdd(col[l], RMul(s, RInt(i - l)))
           /\ col = Doc8 => out_regular.col = [i \in 0..7 |-> RInt(i + 3)]

C1_Witness ==
    /\ col = Doc8
    /\ ext.interpolation_method = "linear"
    /\ out_regular = Ok([i \in 0..7 |-> RInt(i + 3)])

\* both edges of fill_timeseries hold the configured literals
LiteralEdges ==
    LET f == SetMin(NotNullIdx(col))
        l == SetMax(NotNullIdx(col))
        v == ext.val_before_first_non_null_val
        w == ext.val_after_last_non_null_val
    IN /\ ~IsNull(v) =>
            SameShape(out_timeseries, col) /\ \A i \in DOMAIN col : i < f => out_timeseries.col[i] = v
       /\ ~IsNull(w) =>
            SameShape(out_timeseries, col) /\ \A i \in DOMAIN col : i > l => out_timeseries.col[i] = w

\* C2 as stated: for every series with at least one non-null value,
\* fill_timeseries puts the literal val_before_first_non_null_val before the
\* first non-null index and val_after_last_non_null_val after the last one.
C2_LiteralEdgesOneNonNull ==
    (Called(out_timeseries) /\ NonNullCount(col) >= 1) => LiteralEdges

\* C2 amended: the same for every series with at least two non-null values
\* (a series with a single value is filled with that value, see C5).
C2_LiteralEdgesTwoNonNull ==
    (Called(out_timeseries) /\ NonNullCount(col) >= 2) => LiteralEdges

C2_Witness ==
    /\ Called(out_timeseries) /\ NonNullCount(col) >= 2
    /\ SetMin(NotNullIdx(col)) >= 2 /\ SetMax(NotNullIdx(col)) < SeriesLen(col) - 2
    /\ ext.val_before_first_non_null_val = RInt(99)
    /\ ext.val_after_last_non_null_val = RInt(100)
    /\ out_timeseries.col[1] = RInt(99)
    /\ out_timeseries.col[SeriesLen(col) - 1] = RInt(100)

\* C3: on each edge whose boundary value is None, and at every interior
\* position, fill_timeseries returns what fill_regular returns; with both
\* boundary values None the two results are equal everywhere.
C3_TimeseriesMatchesRegular ==
    (Called(out_regular) /\ Called(out_timeseries)) =>
        /\ (IsNull(ext.val_before_first_non_null_val) /\ IsNull(ext.val_after_last_non_null_val))
              => out_timeseries = out_regular
        /\ NonNullCount(col) >= 1 =>
              LET f == SetMin(NotNullIdx(col))
                  l == SetMax(NotNullIdx(col))
              IN /\ out_timeseries.kind = out_regular.kind
                 /\ \A i \in DOMAIN out_regular.col :
                       \/ i < f /\ ~IsNull(ext.val_before_first_non_null_val)
                       \/ i > l /\ ~IsNull(ext.val_after_last_non_null_val)
                       \/ out_timeseries.col[i] = out_regular.col[i]

C3_Witness ==
    /\ Called(out_regular) /\ Called(out_timeseries)
    /\ NonNullCount(col) >= 2
    /\ ~IsNull(ext.val_before_first_non_null_val)
    /\ IsNull(ext.val_after_last_non_null_val)
    /\ SetMin(NotNullIdx(col)) > 0
    /\ SetMax(NotNullIdx(col)) < SeriesLen(col) - 2
    /\ avg_increase(interpolate(col, ext.interpolation_method)) \notin {Null, RInt(0)}
    /\ out_timeseries.col[SeriesLen(col) - 1] = out_regular.col[SeriesLen(col) - 1]
    /\ out_timeseries.col[0] # out_regular.col[0]

\* C4: for an empty or entirely null series fill_regular and fill_timeseries
\* raise nothing and return a series of the same length holding
\* fill_value_if_only_null_values everywhere (still all null when it is None).
C4_AllNullConstantFill ==
    \A out \in {out_regular, out_timeseries} :
        (Called(out) /\ NonNullCount(col) = 0) =>
            /\ SameShape(out, col)
            /\ \A i \in DOMAIN col : out.col[i] = ext.fill_value_if_only_null_values

\* C5: a series with exactly one non-null value x comes back, from both
\* fills and under every boundary configuration, as the constant series x.
C5_SingleValueConstantFill ==
    \A out \in {out_regular, out_timeseries} :
        (Called(out) /\ NonNullCount(col) = 1) =>
            /\ SameShape(out, col)
            /\ \A i \in DOMAIN col : out.col[i] = col[SetMin(NotNullIdx(col))]

C5_Witness ==
    /\ Called(out_regular) /\ Called(out_timeseries)
    /\ NonNullCount(col) = 1 /\ SeriesLen(col) >= 3
    /\ ~IsNull(ext.val_before_first_non_null_val)
    /\ col[1] = RInt(3)
    /\ out_timeseries.col[0] = RInt(3) /\ out_regular.col[2] = RInt(3)

\* the non-null neighbours of position i in s
NonNullBefore(s, i) == SetMax({k \in NotNullIdx(s) : k < i})
NonNullAfter(s, i) == SetMin({k \in NotNullIdx(s) : k > i})

\* v is what the method gives at the null position i between two non-null
\* cells: the point of the line through them, or one of the two
IsInterpolated(v, s, i, method) ==
    LET lo == NonNullBefore(s, i)
        hi == NonNullAfter(s, i)
    IN IF method = "linear"
       THEN RMul(RSub(v, s[lo]), RInt(hi - lo)) = RMul(RSub(s[hi], s[lo]), RInt(i - lo))
       ELSE v \in {s[lo], s[hi]}

\* C27: in fill_timeseries with a boundary literal configured, every position
\* between the first and the last non-null index, nulls inside that range
\* included, receives its interpolated value and never a boundary literal,
\* and every originally non-null value is returned unchanged at its position.
C27_InteriorInterpolated ==
    (/\ Called(out_timeseries)
     /\ ~IsNull(ext.val_before_first_non_null_val) \/ ~IsNull(ext.val_after_last_non_null_val)
     /\ NonNullCount(col) >= 1) =>
        /\ SameShape(out_timeseries, col)
        /\ \A i \in DOMAIN col :
            /\ ~IsNull(col[i]) => out_timeseries.col[i] = col[i]
            /\ (SetMin(NotNullIdx(col)) < i /\ i < SetMax(NotNullIdx(col)) /\ IsNull(col[i])) =>
                /\ out_timeseries.col[i] = interpolate(col, ext.interpolation_method)[i]
                /\ IsInterpolated(out_timeseries.col[i], col, i, ext.interpolation_method)

C27_Witness ==
    /\ col = Doc8
    /\ ext.interpolation_method = "linear"
    /\ ext.val_before_first_non_null_val = RInt(99)
    /\ ext.val_after_last_non_null_val = RInt(100)
    /\ out_timeseries = Ok([i \in 0..7 |->
            <<RInt(99), RInt(99), RInt(5), RInt(6), RInt(7), RInt(8), RInt(9), RInt(100)>>[i + 1]])

----------------------------------------------------------------------------
(* MultiTimeSeriesGapFiller: properties *)

FillCalled == out_fill # EmptyFrame
Resampled == upsample(sort_by_date(df))

\* C6: fill applies the configured two-step strategy to every string and
\* categorical column, so such a column with at least one non-null value has
\* no null in the output.
C6_StringColumnsFilled ==
    FillCalled =>
        \A c \in {"str", "cat"} :
            /\ Column(out_fill, c) = two_step(Column(Resampled, c), StrNull, filler.string_strategy)
            /\ (\E i \in DOMAIN df : df[i][c] # StrNull) =>
                  \A i \in DOMAIN out_fill : out_fill[i][c] # StrNull

\* the string and categorical columns leave fill as they were after resampling
C6_StringColumnsUntouched ==
    FillCalled =>
        \A c \in {"str", "cat"} : Column(out_fill, c) = Column(Resampled, c)

----------------------------------------------------------------------------
(* Casters: properties *)

\* C7: a transform that no successfully completed fit precedes raises the
\* not-fitted ValueError and returns no data; a transform after a successful
\* fit does not raise it.
C7_TransformNeedsFit ==
    last_call.op = "transform" =>
        /\ ~fit_completed => last_call.status = "NotFitted" /\ last_call.out = NoArray
        /\ fit_completed => last_call.status # "NotFitted"

\* a transform refused although a fit was attempted (and failed) before it
C7_Witness ==
    /\ last_call.op = "transform"
    /\ last_call.status = "NotFitted"
    /\ ~fit_completed
    /\ trends # <<>>

\* C8: a fit that raises on a fitted caster leaves is_fitted, trends and
\* cycles as they were, so every transform returns after it what it returned
\* before it.
C8_FailedFitKeepsState ==
    [][(is_fitted /\ last_call'.op = "fit" /\ last_call'.status # "ok") =>
          /\ is_fitted' = is_fitted /\ trends' = trends /\ cycles' = cycles
          /\ \A x \in TransformInputs :
                transform(caster, is_fitted', trends', cycles', x)
                    = transform(caster, is_fitted, trends, cycles, x)]_vars

\* C9: after a fit with period P on a seasonal component S, the stored cycle
\* value of each phase j < P is the mean of the S[i] with i mod P = j.
C9_CyclePhaseMeans ==
    (last_call.op = "fit" /\ last_call.status = "ok") =>
        LET S == last_call.stl.seasonal
        IN \A c \in DOMAIN cycles : \A j \in 0..(caster.period - 1) :
              cycles[c][j] = mean_over(S, {i \in DOMAIN S : i % caster.period = j})

\* C10: on a fitted ForeCaster, transform of a 1-D input of length n returns
\* the input followed by the steps values i*trend_slope + cycle[i mod period]
\* (length n + steps), or those steps values alone when only_return_extended.
C10_ForeCasterExtension ==
    (last_call.op = "transform" /\ caster.class = "ForeCaster" /\ is_fitted
        /\ last_call.x.ndim = 1) =>
        LET x == last_call.x.data
            n == SeriesLen(x)
            out == last_call.out
            e(i) == NAdd(NMul(RInt(i), trends[0]), cycles[0][i % caster.period])
        IN /\ last_call.status = "ok"
           /\ out.ndim = 1
           /\ IF caster.only_return_extended
              THEN out.data = [i \in 0..(caster.steps - 1) |-> e(i)]
              ELSE out.data = [i \in 0..(n + caster.steps - 1) |->
                                  IF i < n THEN x[i] ELSE e(i - n)]

\* C11: on a fitted BackCaster, transform of a 1-D input of length n with
\* only_return_extended false returns a 1-D array of length n + steps: first
\* the steps values (steps - i)*trend_slope + cycle[i mod period] for
\* i = 0..steps-1, then the n input values in order.
C11_BackCasterExtension ==
    (last_call.op = "transform" /\ caster.class = "BackCaster" /\ is_fitted
        /\ last_call.x.ndim = 1 /\ ~caster.only_return_extended) =>
        LET x == last_call.x.data
            n == SeriesLen(x)
            out == last_call.out
            e(i) == NAdd(NMul(RInt(caster.steps - i), trends[0]),
                         cycles[0][i % caster.period])
        IN /\ last_call.status = "ok"
           /\ out.ndim = 1
           /\ SeriesLen(out.data) = n + caster.steps
           /\ out.data = [i \in 0..(n + caster.steps - 1) |->
                             IF i < caster.steps THEN e(i) ELSE x[i - caster.steps]]

\* C12: a fit on a 2-D input with several columns (period at least 2)
\* completes, and what it stores for column j comes from the decomposition of
\* column j alone, so that the other columns cannot influence it.
C12_PerColumnFit ==
    (last_call.op = "fit" /\ last_call.x.ncols >= 2 /\ caster.period >= 2) =>
        /\ last_call.status = "ok"
        /\ \A j \in 0..(last_call.x.ncols - 1) : stl_endog(last_call.x, j) = {j}

----------------------------------------------------------------------------
(* Renamer: properties *)

\* how many of the calls so far, the last one included, had a name that
\* sanitizes to the same base as the last one
Occurrence ==
    LET base == rename_inner_(rename_calls[Len(rename_calls)])
    IN Cardinality({i \in DOMAIN rename_calls : rename_inner_(rename_calls[i]) = base})

\* C13: the k-th rename call whose name sanitizes to the base b returns b for
\* k = 1 and b, "_" and the decimal k for k >= 2; an empty name and None
\* sanitize to "unnamed".
C13_KthOccurrenceSuffix ==
    rename_calls # <<>> =>
        LET name == rename_calls[Len(rename_calls)]
            b == rename_inner_(name)
            k == Occurrence
        IN /\ (name \in {<<>>, NoneName} => b = Unnamed)
           /\ (k = 1 => renamed = b)
           /\ (k >= 2 => renamed = b \o <<"_">> \o Decimal(k))

\* the third call with the base "a", each time spelled differently, after a
\* call with another base in between
C13_Witness ==
    /\ Len(rename_calls) = MaxCalls
    /\ rename_calls[1] = <<"a">>
    /\ rename_calls[2] = <<"#">>
    /\ rename_calls[3] = <<"A">>
    /\ rename_calls[MaxCalls] = <<"_", "a", "_">>
    /\ renamed = <<"a", "_", "3">>

\* C14: every name rename returns consists of characters of [a-z0-9_] only.
AllowedChars ==
    {LowerCase[i] : i \in DOMAIN LowerCase} \cup {Digits[i] : i \in DOMAIN Digits} \cup {"_"}
C14_OnlySafeCharacters ==
    \A i \in DOMAIN renamed : renamed[i] \in AllowedChars

\* the name the i-th rename call returned: its base with the suffix of the
\* count the calls up to it gave that base
ReturnedAt(i) ==
    LET base == rename_inner_(rename_calls[i])
    IN rename_suffixed(base,
            Cardinality({j \in 1..i : rename_inner_(rename_calls[j]) = base}))

\* C28: for any sequence of rename calls on one Renamer, the returned names
\* are pairwise distinct, so format_column_names never gives two columns the
\* same name.
C28_ReturnedNamesDistinct ==
    /\ rename_calls # <<>> => renamed = ReturnedAt(Len(rename_calls))
    /\ \A i, j \in DOMAIN rename_calls : i < j => ReturnedAt(i) # ReturnedAt(j)

----------------------------------------------------------------------------
(* Cleaner: properties *)

\* the columns remove_nulls is to consider: all but the ignored ones
Considered(cols_to_ignore) == ColSet(CleanerCols) \ ColSet(cols_to_ignore.names)
NonNullAmong(row, cs) == Cardinality({c \in cs : ~IsNull(row[c])})

\* C15: for a threshold t of [0, 1], remove_nulls keeps exactly the rows
\* whose share of non-null cells among the considered columns is at least t,
\* in their order; t = 0 keeps every row and t = 1 the rows without a null in
\* the considered columns.
C15_RemoveNullsRatio ==
    (cleaned.op = "remove_nulls" /\ ~IsNull(cleaned.arg)
        /\ ~RLess(cleaned.arg, RInt(0)) /\ ~RLess(RInt(1), cleaned.arg)) =>
        LET t == cleaned.arg
            cs == Considered(cleaned.cols)
            kept == {i \in DOMAIN lf :
                        NonNullAmong(lf[i], cs) * t[2] >= t[1] * Cardinality(cs)}
        IN /\ cleaned.status = "ok"
           /\ cleaned.frame = filter(lf, kept)
           /\ (t = RInt(0) => cleaned.frame = lf)
           /\ (t = RInt(1) =>
                 cleaned.frame = filter(lf, {i \in DOMAIN lf : \A c \in cs : ~IsNull(lf[i][c])}))

\* the positions of the request that name a column of the frame
Present(request) == {i \in DOMAIN request : request[i] \in ColSet(CleanerCols)}
KthOf(S, k) == CHOOSE i \in S : Cardinality({j \in S : j < i}) = k - 1

C17_DedupKeepsFirstInOrder ==
    cleaned.op = "remove_duplicates" =>
        cleaned.frame =
            filter(lf, {i \in DOMAIN lf : \A k \in DOMAIN lf : k < i => lf[k] # lf[i]})

\* C18: after fill_nulls with its default arguments no cell of the frame is
\* null, whatever the logical types of the columns.
C18_DefaultFillLeavesNoNull ==
    (cleaned.op = "fill_nulls" /\ cleaned.arg = DefaultFill) =>
        /\ cleaned.status = "ok"
        /\ DOMAIN cleaned.frame = DOMAIN lf
        /\ \A i \in DOMAIN cleaned.frame : \A c \in ColSet(CleanerCols) :
              ~IsNull(cleaned.frame[i][c])

\* C19: sort called with neither cols nor descending returns the frame with
\* its rows in their original order.
C19_SortWithoutArgumentsIsNoOp ==
    (cleaned.op = "sort" /\ cleaned.cols = NoCols /\ cleaned.arg = "unsupplied") =>
        cleaned.frame = lf

----------------------------------------------------------------------------
(* OutlierRemover: properties *)

\* sums of whole numbers over the rows of a table
RECURSIVE SumOver(_, _)
SumOver(S, val) ==
    IF S = {} THEN 0
    ELSE LET i == CHOOSE k \in S : TRUE IN val[i] + SumOver(S \ {i}, val)

\* |x_ij - mean_j| / std_j <= t with the mean and the (population) standard
\* deviation of column j, in whole numbers: with n rows and the column sum S,
\* n * (n*x_ij - S)^2 * td^2 <= tn^2 * sum_r (n*x_rj - S)^2 for t = tn / td
WithinColumnwise(x, i, j, t) ==
    LET n == NRowsOf(x)
        cell == [r \in DOMAIN x |-> x[r][j][1]]
        S == SumOver(DOMAIN x, cell)
        d2 == [r \in DOMAIN x |-> (n * cell[r] - S) * (n * cell[r] - S)]
    IN n * d2[i] * t[2] * t[2] <= t[1] * t[1] * SumOver(DOMAIN x, d2)

NoConstantColumn(x) == \A j \in FeatureCols : \E r, q \in DOMAIN x : x[r][j] # x[q][j]

\* C20: whatever the container of the table (numpy array, DataFrame,
\* LazyFrame), remove keeps exactly the rows whose largest column-wise
\* |Z-score| is at most the threshold (no feature column being constant), so
\* the three containers give the same rows.
C20_SameRowsForEveryContainer ==
    (removed.status = "ok" /\ NoConstantColumn(table)) =>
        removed.x_new =
            filter(table, {i \in DOMAIN table :
                              \A j \in FeatureCols :
                                  WithinColumnwise(table, i, j, removed.threshold)})

\* C21: with a y, remove filters X and y with one mask: the outputs have as
\* many rows, output row k of X and output row k of y come from the same
\* input row, the kept rows are in input order and hold their input values.
C21_SameMaskForXAndY ==
    (removed.status = "ok" /\ removed.y # NoY) =>
        LET x_new == removed.x_new
            y_new == removed.y_new.data
            \* row i of the y passed in holds the number i
            origin == [k \in DOMAIN y_new |-> y_new[k][1]]
        IN /\ NRowsOf(x_new) = NRowsOf(y_new)
           /\ \A k \in DOMAIN y_new :
                 /\ origin[k] \in DOMAIN table
                 /\ x_new[k] = table[origin[k]]
                 /\ y_new[k] = removed.y.data[origin[k]]
           /\ \A k, m \in DOMAIN y_new : k < m => origin[k] < origin[m]
           /\ removed.y_new.container = removed.y.container
           /\ removed.y_new.ndim = removed.y.ndim

\* a call with a y that drops the first row and keeps a later one
C21_Witness ==
    /\ removed.status = "ok"
    /\ removed.y # NoY
    /\ NRowsOf(removed.x_new) >= 1
    /\ NRowsOf(removed.x_new) < NRowsOf(table)
    /\ removed.y_new.data[0] # RInt(0)

\* C22: remove raises ValueError and returns no data whenever y has another
\* row count than X, more than one column, or another container type.
C22_BadYRaises ==
    (removed.status # "none" /\ removed.y # NoY
        /\ (\/ NRowsOf(removed.y.data) # NRowsOf(table)
            \/ removed.y.ncols > 1
            \/ removed.y.container # removed.container)) =>
        /\ removed.status = "ValueError"
        /\ removed.x_new = NoFrame
        /\ removed.y_new = NoY

\* a frame call refused for the row count of y alone
C22_Witness ==
    /\ removed.status = "ValueError"
    /\ removed.container = "LazyFrame"
    /\ removed.y.container = "LazyFrame"
    /\ removed.y.ncols = 1
    /\ NRowsOf(removed.y.data) # NRowsOf(table)

\* C23: on a frame with a constant feature column, a row whose Z-scores in
\* the non-constant columns are within the threshold is kept.
C23_ConstantColumnKeepsRows ==
    (removed.status = "ok" /\ removed.container # "ndarray"
        /\ ~NoConstantColumn(table)) =>
        LET varying == {j \in FeatureCols : \E r, q \in DOMAIN table : table[r][j] # table[q][j]}
            low == {i \in DOMAIN table :
                        \A j \in varying : WithinColumnwise(table, i, j, removed.threshold)}
        IN \A i \in low : \E k \in DOMAIN removed.x_new : removed.x_new[k] = table[i]

----------------------------------------------------------------------------
(* OutlierSmoother: properties *)

\* the cell lies within [mean - k*std, mean + k*std] of the input column
WithinBounds(cell, X, k) ==
    (cell.kind = "value" /\ ~IsNull(cell.v)) =>
        /\ ~above_max_val(cell.v, mean(X), variance(X), k)
        /\ ~below_min_val(cell.v, mean(X), variance(X), k)

\* C24: for every numeric column, integer or float, and every max_zscore
\* k >= 0, every non-null value of the column smooth returns lies within
\* [mean - k*std, mean + k*std] of the input column.
C24_SmoothedWithinBounds ==
    smoothed.status = "ok" =>
        \A i \in DOMAIN smoothed.num :
            WithinBounds(smoothed.num[i], sframe.num, smoother.max_zscore)

----------------------------------------------------------------------------
(* ScalerNDim: properties *)

\* max(X), or prevent_div_by_zero_val when max(X) is 0
MaxOrPrevent(X, prevent) == IF array_max(X) = RInt(0) THEN prevent ELSE array_max(X)

\* C25: for a ScalerNDim constructed without a divisor, after each fit(X) the
\* divisor is max(X), or prevent_div_by_zero_val when max(X) is 0, also when
\* fit is called again on different data, and transform(X) returns
\* X / divisor elementwise.
C25_DivisorOfLastFit ==
    IsNull(scaler_args.divisor) =>
        /\ scaled.op \in {"fit", "fit_transform"} =>
                scaler.divisor = MaxOrPrevent(scaled.X, scaler.prevent_div_by_zero_val)
        /\ (scaled.op \in {"transform", "fit_transform"} /\ scaled.status = "ok") =>
                scaled.out = [i \in DOMAIN scaled.X |-> RDiv(scaled.X[i], scaler.divisor)]

----------------------------------------------------------------------------
(* TransposerNDim: properties *)

IsValueError(status) == status \in {"ValueError", "AxisError"}
AxisSet(axes, ndim, from_end) ==
    {IF from_end /\ axes[i] < 0 THEN axes[i] + ndim ELSE axes[i] : i \in 1..Len(axes)}
IsPermutation(axes, ndim, from_end) ==
    Len(axes) = ndim /\ AxisSet(axes, ndim, from_end) = 0..(ndim - 1)

\* C26 as stated: any axis tuple is accepted at construction, and transform
\* raises ValueError exactly when the tuple is not a permutation of the axes
\* 0..ndim-1 of the input array.
C26_RaisesIffNotPermutation ==
    transposed.op = "transform" =>
        (IsValueError(transposed.status)
            <=> ~IsPermutation(transposer.transpose_dims, Len(transposed.X), FALSE))

\* C26 amended: transform raises ValueError exactly when the tuple, a negative
\* axis counting from the last one, is not a permutation of the axes of the
\* input array; otherwise output axis i is input axis transpose_dims[i].
C26_RaisesIffNotPermutationFromEitherEnd ==
    transposed.op = "transform" =>
        /\ transposed.status \in {"ok", "ValueError", "AxisError"}
        /\ IsValueError(transposed.status)
            <=> ~IsPermutation(transposer.transpose_dims, Len(transposed.X), TRUE)
        /\ transposed.status = "ok" =>
            /\ Len(transposed.out) = Len(transposed.X)
            /\ \A i \in 1..Len(transposed.X) :
                LET a == transposer.transpose_dims[i]
                IN transposed.out[i] =
                    transposed.X[(IF a < 0 THEN a + Len(transposed.X) ELSE a) + 1]

C26_Witness ==
    /\ transposed.op = "transform"
    /\ transposed.status = "ok"
    /\ transposer.transpose_dims = <<0 - 1, 0>>
    /\ transposed.X = <<2, 3>>
    /\ transposed.out = <<3, 2>>

----------------------------------------------------------------------------
(* MultiTimeSeriesExtender: properties *)

Extends == extended.op \in {"forward", "backward"}

\* C29: every MultiTimeSeriesExtender the constructor accepts, the one built
\* with default arguments included, builds its MultiTimeSeriesGapFiller in
\* forward and backward without a TypeError or ValueError of the gap filler's
\* argument validation.
C29_GapFillerAccepted ==
    Extends => extended.filler \notin {"TypeError", "ValueError"}

\* C30: in forward and backward every per-type column extender has the steps
\* and the only_return_extended of the MultiTimeSeriesExtender, so all output
\* columns have the same length: steps when only_return_extended is true,
\* otherwise the gap-filled row count plus steps.
C30_SameStepsAndFlagEverywhere ==
    (Extends /\ extended.filler = "ok") =>
        /\ \A c \in ExtenderColumns :
            /\ extended.extenders[c].steps = extender.steps
            /\ extended.extenders[c].only_return_extended = extender.only_return_extended
        /\ extended.status = "ok" =>
            \A c \in ExtenderColumns :
                extended.lengths[c] =
                    IF extender.only_return_extended THEN extender.steps
                    ELSE extended.rows + extender.steps

====
